---- MODULE Spec2Model ----
(***************************************************************************)
(* A model of package semver (src/semver.go): the combinator parser, the   *)
(* renderer, the precedence comparator and the bump engine.                *)
(*                                                                         *)
(* A Go string is a sequence of one-character strings, so that slicing,    *)
(* prefix tests and byte-wise comparison are computed, not assumed.  A Go  *)
(* slice is a header [arr, len, cap] over a backing array kept in a heap,  *)
(* so that two headers may share storage exactly as they do in Go.         *)
(***************************************************************************)
EXTENDS Integers, Sequences, FiniteSets, TLC

VARIABLES
    pc,        \* position of the calling program
    heap,      \* backing arrays of all []string slices
    str1,      \* first string argument of the caller
    str2,      \* second string argument of the caller
    v1,        \* first Version variable of the caller
    v2,        \* second Version variable of the caller
    err,       \* error returned by the last call
    out,       \* string returned by String()
    less12,    \* Less(&v1, &v2)
    less21,    \* Less(&v2, &v1)
    options,   \* option list handed to Bump
    before,    \* what v1 rendered its fields as before the Bump call
    ret,       \* Version returned by Bump or New
    got,       \* what the method Valid() returned
    threads    \* the locals of each goroutine that calls Bump

vars == <<pc, heap, str1, str2, v1, v2, err, out, less12, less21, options, before, ret, got, threads>>

----------------------------------------------------------------------------
(* Bytes and strings *)

Ascii ==
    ("+" :> 43) @@ ("-" :> 45) @@ ("." :> 46) @@
    ("0" :> 48) @@ ("1" :> 49) @@ ("2" :> 50) @@ ("3" :> 51) @@ ("4" :> 52) @@
    ("5" :> 53) @@ ("6" :> 54) @@ ("7" :> 55) @@ ("8" :> 56) @@ ("9" :> 57) @@
    ("A" :> 65) @@ ("_" :> 95) @@ ("a" :> 97) @@ ("b" :> 98) @@ ("c" :> 99)

\* s < '0' || s > '9', negated
isDigit(s) == Ascii[s] >= Ascii["0"] /\ Ascii[s] <= Ascii["9"]

\* isIdentChar with the letters tested as the one range 'A'..'z'
isIdentChar_OneLetterRange(s) ==
    ~ (  (Ascii[s] < Ascii["0"] \/ Ascii[s] > Ascii["9"])
      /\ (Ascii[s] < 65 \/ Ascii[s] > 122)
      /\ s /= "-")

\* the negation of the character test of prerelease() and buildmetadata()
isIdentChar(s) ==
    ~ (  (Ascii[s] < Ascii["0"] \/ Ascii[s] > Ascii["9"])
      /\ (Ascii[s] < 97 \/ Ascii[s] > 122)
      /\ (Ascii[s] < 65 \/ Ascii[s] > 90)
      /\ s /= "-")

\* Go's stream[i:] for a 0-based byte index i
From(stream, i) == SubSeq(stream, i + 1, Len(stream))

\* Go's stream[:i]
Upto(stream, i) == SubSeq(stream, 1, i)

RECURSIVE StrLess(_, _)
\* Go's a < b on strings: byte-wise lexicographic order
StrLess(a, b) ==
    IF b = <<>> THEN FALSE
    ELSE IF a = <<>> THEN TRUE
    ELSE IF Ascii[Head(a)] /= Ascii[Head(b)] THEN Ascii[Head(a)] < Ascii[Head(b)]
    ELSE StrLess(Tail(a), Tail(b))

RECURSIVE Join(_, _)
\* strings.Join(elems, sep)
Join(elems, sep) ==
    IF elems = <<>> THEN <<>>
    ELSE IF Len(elems) = 1 THEN elems[1]
    ELSE elems[1] \o sep \o Join(Tail(elems), sep)

----------------------------------------------------------------------------
(* Slices of strings *)

\* []string{} : a non-nil slice header of length and capacity 0
emptySlice == [arr |-> 0, len |-> 0, cap |-> 0]

\* the nil slice of a zero Version{}
nilSlice == [arr |-> -1, len |-> 0, cap |-> 0]

\* the identifiers visible through a slice header
elems(h, sl) == IF sl.len = 0 THEN <<>> ELSE SubSeq(h[sl.arr], 1, sl.len)

\* append(sl, x): in place when capacity allows, else into a fresh array of
\* grown capacity (1, then doubling) holding a copy of the elements
append(h, sl, x) ==
    IF sl.len < sl.cap
    THEN [h |-> [h EXCEPT ![sl.arr][sl.len + 1] = x],
          s |-> [sl EXCEPT !.len = sl.len + 1]]
    ELSE LET newcap == IF sl.cap = 0 THEN 1 ELSE 2 * sl.cap
             fresh  == elems(h, sl) \o <<x>> \o [i \in 1..(newcap - sl.len - 1) |-> <<>>]
         IN [h |-> Append(h, fresh),
             s |-> [arr |-> Len(h) + 1, len |-> sl.len + 1, cap |-> newcap]]

----------------------------------------------------------------------------
(* Version and errors *)

\* Version{} : every field at its zero value
zeroVersion ==
    [Major |-> <<>>, Minor |-> <<>>, Patch |-> <<>>,
     Prerelease |-> nilSlice, Buildmetadata |-> nilSlice]

\* the nil error
nil == [isErr |-> FALSE, pos |-> 0, msg |-> ""]

positionErr(pos, msg) == [isErr |-> TRUE, pos |-> pos, msg |-> msg]

\* fmt.Errorf: an error that carries no position
Errorf(msg) == [isErr |-> TRUE, pos |-> -1, msg |-> msg]

nameFor(val) ==
    CASE val = "." -> "dot"
      [] val = "+" -> "plus"
      [] val = "-" -> "minus"
      [] OTHER -> val

----------------------------------------------------------------------------
(* Grammar primitives.  A consumer is a value; run(c, pos, stream, st)     *)
(* calls it on the target st = [h: heap, v: the Version pointed to] and    *)
(* yields [remain, err, st].                                               *)

literal(val) == [kind |-> "literal", val |-> val]

dot == literal(".")

plus == literal("+")

minus == literal("-")

number(f) == [kind |-> "number", f |-> f]

major == number("Major")

minor == number("Minor")

patch == number("Patch")

sequence(cs) == [kind |-> "sequence", cs |-> cs]

optional(c, cs) == [kind |-> "optional", probe |-> c, cs |-> cs]

repeat(cs) == [kind |-> "repeat", cs |-> cs]

prerelease == [kind |-> "prerelease"]

buildmetadata == [kind |-> "buildmetadata"]

excess == [kind |-> "excess"]

literalRun(val, pos, stream, st) ==
    IF stream = <<>>
    THEN [remain |-> stream, st |-> st,
          err |-> positionErr(pos, "unexpected end of stream while " \o nameFor(val) \o " was expected")]
    ELSE IF Head(stream) = val
    THEN [remain |-> From(stream, 1), st |-> st, err |-> nil]
    ELSE [remain |-> stream, st |-> st,
          err |-> positionErr(pos, "unexpected character in place where " \o nameFor(val) \o " was expected")]

RECURSIVE digitPrefix(_, _)
\* the loop of number(): the count of leading digits of stream, from index i
digitPrefix(stream, i) ==
    IF i >= Len(stream) THEN i
    ELSE IF ~ isDigit(stream[i + 1]) THEN i
    ELSE digitPrefix(stream, i + 1)

numberRun(f, pos, stream, st) ==
    LET n   == digitPrefix(stream, 0)
        num == Upto(stream, n)
    IN IF num = <<>>
       THEN [remain |-> stream, st |-> st,
             err |-> positionErr(pos + 1, "unexpected non-numeric character")]
       ELSE IF Len(num) > 1 /\ num[1] = "0"
       THEN [remain |-> stream, st |-> st,
             err |-> positionErr(pos + 1, "unexpected leading zero")]
       ELSE [remain |-> From(stream, n), err |-> nil,
             st |-> [st EXCEPT !.v[f] = num]]

RECURSIVE prereleaseScan(_, _, _, _)
\* the range loop of prerelease(), from byte index i
prereleaseScan(pos, stream, i, numberFlag) ==
    IF i >= Len(stream)
    THEN [exit |-> "end", i |-> i, numberFlag |-> numberFlag, err |-> nil]
    ELSE LET s == stream[i + 1]
         IN IF s = "." \/ s = "+"
            THEN IF i = 0
                 THEN [exit |-> "return", i |-> i, numberFlag |-> numberFlag,
                       err |-> positionErr(pos + i, "unexpected empty prerelease")]
                 ELSE [exit |-> "break", i |-> i, numberFlag |-> numberFlag, err |-> nil]
            ELSE IF ~ isIdentChar(s)
            THEN [exit |-> "return", i |-> i, numberFlag |-> numberFlag,
                  err |-> positionErr(pos + i - 1, "invalid character in prerelease")]
            ELSE prereleaseScan(pos, stream, i + 1, numberFlag /\ isDigit(s))

prereleaseTokenEnd(stream, sc) == IF sc.exit = "break" THEN sc.i ELSE Len(stream)

prereleaseRun(pos, stream, st) ==
    IF stream = <<>>
    THEN [remain |-> <<>>, st |-> st,
          err |-> positionErr(pos, "unexpected end of stream in prerelease")]
    ELSE LET sc == prereleaseScan(pos, stream, 0, TRUE)
         IN IF sc.exit = "return"
            THEN [remain |-> stream, st |-> st, err |-> sc.err]
            ELSE LET n     == prereleaseTokenEnd(stream, sc)
                     token == Upto(stream, n)
                     a     == append(st.h, st.v.Prerelease, token)
                     st1   == [h |-> a.h, v |-> [st.v EXCEPT !.Prerelease = a.s]]
                 IN IF sc.numberFlag /\ Len(token) > 1 /\ token[1] = "0"
                    THEN [remain |-> stream, st |-> st1,
                          err |-> positionErr(pos, "unexpected leading zero")]
                    ELSE [remain |-> From(stream, n), st |-> st1, err |-> nil]

RECURSIVE buildmetadataScan(_, _, _)
\* the range loop of buildmetadata(), from byte index i
buildmetadataScan(pos, stream, i) ==
    IF i >= Len(stream)
    THEN [exit |-> "end", i |-> i, err |-> nil]
    ELSE LET s == stream[i + 1]
         IN IF s = "." \/ s = "+"
            THEN IF i = 0
                 THEN [exit |-> "error", i |-> i,
                       err |-> positionErr(pos + i, "unexpected empty prerelease")]
                 ELSE [exit |-> "token", i |-> i, err |-> nil]
            ELSE IF ~ isIdentChar(s)
            THEN [exit |-> "error", i |-> i,
                  err |-> positionErr(pos + i, "invalid character in buildmetadata")]
            ELSE buildmetadataScan(pos, stream, i + 1)

buildmetadataRun(pos, stream, st) ==
    IF stream = <<>>
    THEN [remain |-> <<>>, st |-> st,
          err |-> positionErr(pos, "unexpected end of stream in buildmetadata")]
    ELSE LET sc == buildmetadataScan(pos, stream, 0)
         IN IF sc.exit = "error"
            THEN [remain |-> stream, st |-> st, err |-> sc.err]
            ELSE LET a == append(st.h, st.v.Buildmetadata, Upto(stream, sc.i))
                 IN [remain |-> From(stream, sc.i), err |-> nil,
                     st |-> [h |-> a.h, v |-> [st.v EXCEPT !.Buildmetadata = a.s]]]

excessRun(pos, stream, st) ==
    IF stream /= <<>>
    THEN [remain |-> stream, st |-> st, err |-> positionErr(pos, "unexpected extra data")]
    ELSE [remain |-> <<>>, st |-> st, err |-> nil]

----------------------------------------------------------------------------
(* Combinators *)

RECURSIVE run(_, _, _, _)

RECURSIVE sequenceLoop(_, _, _, _, _)

\* the body of the loop of sequence() once consumer i has returned r
sequenceStep(cs, i, pos, stream, r) ==
    IF r.err /= nil
    THEN [remain |-> stream, st |-> r.st, err |-> r.err]
    ELSE sequenceLoop(cs, i + 1, pos + (Len(stream) - Len(r.remain)), r.remain, r.st)

\* the loop of sequence(): consumer i of cs, on the advanced pos and stream
sequenceLoop(cs, i, pos, stream, st) ==
    IF i > Len(cs) THEN [remain |-> stream, st |-> st, err |-> nil]
    ELSE sequenceStep(cs, i, pos, stream, run(cs[i], pos, stream, st))

RECURSIVE optionalLoop(_, _, _, _, _, _)

\* the body of the loop of optional() once consumer i has returned r
optionalStep(cs, i, pos, stream, r) ==
    IF r.err /= nil
    THEN [remain |-> stream, st |-> r.st, err |-> r.err]
    ELSE optionalLoop(cs, i + 1, pos + (Len(stream) - Len(r.remain)), stream, r.remain, r.st)

\* the loop of optional() over the consumers that follow the probe
optionalLoop(cs, i, pos, stream, remain, st) ==
    IF i > Len(cs) THEN [remain |-> remain, st |-> st, err |-> nil]
    ELSE optionalStep(cs, i, pos, stream, run(cs[i], pos, remain, st))

\* optional() once the probe has returned p
optionalProbed(c, pos, stream, p) ==
    IF p.err /= nil
    THEN [remain |-> stream, st |-> p.st, err |-> nil]
    ELSE optionalLoop(c.cs, 1, pos + (Len(stream) - Len(p.remain)), stream, p.remain, p.st)

optionalRun(c, pos, stream, st) ==
    optionalProbed(c, pos, stream, run(c.probe, pos, stream, st))

RECURSIVE repeatLoop(_, _, _, _, _, _)

\* the body of the loop of repeat() once consumer i % len(c) has returned r
repeatStep(cs, i, pos, stream, remain, r) ==
    IF r.err /= nil
    THEN IF i % Len(cs) = 0
         THEN [remain |-> r.remain, st |-> r.st, err |-> nil]
         ELSE [remain |-> stream, st |-> r.st, err |-> r.err]
    ELSE repeatLoop(cs, i + 1, pos + (Len(remain) - Len(r.remain)), stream, r.remain, r.st)

\* the loop of repeat(): iteration i runs consumer i % len(c)
repeatLoop(cs, i, pos, stream, remain, st) ==
    repeatStep(cs, i, pos, stream, remain, run(cs[(i % Len(cs)) + 1], pos, remain, st))

run(c, pos, stream, st) ==
    CASE c.kind = "literal"       -> literalRun(c.val, pos, stream, st)
      [] c.kind = "number"        -> numberRun(c.f, pos, stream, st)
      [] c.kind = "prerelease"    -> prereleaseRun(pos, stream, st)
      [] c.kind = "buildmetadata" -> buildmetadataRun(pos, stream, st)
      [] c.kind = "excess"        -> excessRun(pos, stream, st)
      [] c.kind = "sequence"      -> sequenceLoop(c.cs, 1, pos, stream, st)
      [] c.kind = "optional"      -> optionalRun(c, pos, stream, st)
      [] c.kind = "repeat"        -> repeatLoop(c.cs, 0, pos, stream, stream, st)

----------------------------------------------------------------------------
(* The version grammar, Parse, Valid and String *)

semverParser ==
    sequence(<<
        major,
        dot,
        minor,
        dot,
        patch,
        optional(minus, <<prerelease, repeat(<<dot, prerelease>>)>>),
        optional(plus, <<buildmetadata, repeat(<<dot, buildmetadata>>)>>),
        excess
    >>)

defaultParser == semverParser

\* what Parse returns once defaultParser has returned r
ParseReturn(r) ==
    IF r.err /= nil
    THEN [v |-> zeroVersion, err |-> r.err, h |-> r.st.h]
    ELSE [v |-> r.st.v, err |-> nil, h |-> r.st.h]

\* Parse(s), called with heap h: the Version returned, the error, the heap after
Parse(h, s) ==
    ParseReturn(run(defaultParser, 0, s,
                    [h |-> h, v |-> [zeroVersion EXCEPT !.Prerelease = emptySlice,
                                                        !.Buildmetadata = emptySlice]]))

\* func Valid(semver string) bool
Valid(h, s) == Parse(h, s).err = nil

\* String without the build metadata section
String_WithoutMetadata(h, semver) ==
    LET version == semver.Major \o <<".">> \o semver.Minor \o <<".">> \o semver.Patch
    IN IF semver.Prerelease.len > 0
       THEN version \o <<"-">> \o Join(elems(h, semver.Prerelease), <<".">>)
       ELSE version

\* func (semver *Version) String() string
String(h, semver) ==
    LET version == semver.Major \o <<".">> \o semver.Minor \o <<".">> \o semver.Patch
        withPre == IF semver.Prerelease.len > 0
                   THEN version \o <<"-">> \o Join(elems(h, semver.Prerelease), <<".">>)
                   ELSE version
    IN IF semver.Buildmetadata.len > 0
       THEN withPre \o <<"+">> \o Join(elems(h, semver.Buildmetadata), <<".">>)
       ELSE withPre

----------------------------------------------------------------------------
(* Comparator *)

IntSize == 64

\* the decimal digits of 2^(IntSize-1) - 1, the largest int
MaxIntDigits ==
    IF IntSize = 64
    THEN <<"9","2","2","3","3","7","2","0","3","6","8","5","4","7","7","5","8","0","7">>
    ELSE <<"2","1","4","7","4","8","3","6","4","7">>

\* the decimal digits of 2^(IntSize-1), the magnitude of the smallest int
MinIntDigits ==
    IF IntSize = 64
    THEN <<"9","2","2","3","3","7","2","0","3","6","8","5","4","7","7","5","8","0","8">>
    ELSE <<"2","1","4","7","4","8","3","6","4","8">>

RECURSIVE stripZeros(_)
\* the digits of a decimal numeral without its leading zeros ("0" for zero)
stripZeros(d) == IF Len(d) > 1 /\ d[1] = "0" THEN stripZeros(Tail(d)) ELSE d

\* order of two magnitudes given without leading zeros
magLess(x, y) == Len(x) < Len(y) \/ (Len(x) = Len(y) /\ StrLess(x, y))

\* an integer value: sign and magnitude, zero never negative
intVal(neg, d) ==
    LET mag == stripZeros(d) IN [neg |-> neg /\ mag /= <<"0">>, mag |-> mag]

\* x < y on integer values
intLess(x, y) ==
    IF x.neg /= y.neg THEN x.neg
    ELSE IF x.neg THEN magLess(y.mag, x.mag)
    ELSE magLess(x.mag, y.mag)

\* an optional sign followed by one or more digits, which is what
\* strconv.Atoi and big.Int.SetString(s, 10) take
signedDigits(s) ==
    LET signed == s /= <<>> /\ (s[1] = "-" \/ s[1] = "+")
        d      == IF signed THEN Tail(s) ELSE s
    IN [ok  |-> d /= <<>> /\ \A i \in 1..Len(d) : isDigit(d[i]),
        neg |-> signed /\ s[1] = "-",
        d   |-> d]

\* strconv.Atoi: a syntax error unless signedDigits, a range error when the
\* value does not fit an int
Atoi(s) ==
    LET p == signedDigits(s)
        v == intVal(p.neg, p.d)
    IN IF ~ p.ok THEN [ok |-> FALSE, val |-> intVal(FALSE, <<"0">>)]
       ELSE IF v.neg /\ magLess(MinIntDigits, v.mag)
       THEN [ok |-> FALSE, val |-> intVal(TRUE, MinIntDigits)]
       ELSE IF ~ v.neg /\ magLess(MaxIntDigits, v.mag)
       THEN [ok |-> FALSE, val |-> intVal(FALSE, MaxIntDigits)]
       ELSE [ok |-> TRUE, val |-> v]

isNum(s) == LET r == Atoi(s) IN [num |-> r.ok, val |-> r.val]

min(a, b) == IF a < b THEN a ELSE b

\* lessOrEqual without the two length tests
lessOrEqual_Lexical(a, b) == [less |-> StrLess(a, b), eq |-> a = b]

lessOrEqual(a, b) ==
    IF Len(a) > Len(b) THEN [less |-> FALSE, eq |-> FALSE]
    ELSE IF Len(a) < Len(b) THEN [less |-> TRUE, eq |-> FALSE]
    ELSE [less |-> StrLess(a, b), eq |-> a = b]

RECURSIVE lessOrEqualStringsLoop(_, _, _, _)
\* the loop of lessOrEqualStrings over i < n, and what follows it
lessOrEqualStringsLoop(a, b, i, n) ==
    IF i >= n
    THEN IF Len(a) < Len(b) THEN [less |-> TRUE, eq |-> FALSE]
         ELSE IF Len(a) > Len(b) THEN [less |-> FALSE, eq |-> FALSE]
         ELSE [less |-> FALSE, eq |-> TRUE]
    ELSE LET an == isNum(a[i + 1])
             bn == isNum(b[i + 1])
         IN IF an.num /\ ~ bn.num THEN [less |-> TRUE, eq |-> FALSE]
            ELSE IF ~ an.num /\ bn.num THEN [less |-> FALSE, eq |-> FALSE]
            ELSE IF an.num /\ bn.num
            THEN [less |-> intLess(an.val, bn.val), eq |-> an.val = bn.val]
            ELSE IF StrLess(a[i + 1], b[i + 1]) THEN [less |-> TRUE, eq |-> FALSE]
            ELSE IF StrLess(b[i + 1], a[i + 1]) THEN [less |-> FALSE, eq |-> FALSE]
            ELSE lessOrEqualStringsLoop(a, b, i + 1, n)

\* lessOrEqualStrings without the tests for an empty sequence
lessOrEqualStrings_NoEmptyCase(a, b) ==
    lessOrEqualStringsLoop(a, b, 0, min(Len(a), Len(b)))

lessOrEqualStrings(a, b) ==
    IF Len(a) = 0 /\ Len(b) = 0 THEN [less |-> FALSE, eq |-> TRUE]
    ELSE IF Len(a) = 0 THEN [less |-> FALSE, eq |-> FALSE]
    ELSE IF Len(b) = 0 THEN [less |-> TRUE, eq |-> FALSE]
    ELSE lessOrEqualStringsLoop(a, b, 0, min(Len(a), Len(b)))

\* Less going on to the build metadata when all the rest is equal
Less_MetadataBreaksTies(h, s1, s2) ==
    LET ma == lessOrEqual(s1.Major, s2.Major)
        mi == lessOrEqual(s1.Minor, s2.Minor)
        pa == lessOrEqual(s1.Patch, s2.Patch)
        pr == lessOrEqualStrings(elems(h, s1.Prerelease), elems(h, s2.Prerelease))
        bm == lessOrEqualStrings(elems(h, s1.Buildmetadata), elems(h, s2.Buildmetadata))
    IN IF ~ ma.eq THEN ma.less
       ELSE IF ~ mi.eq THEN mi.less
       ELSE IF ~ pa.eq THEN pa.less
       ELSE IF ~ pr.eq THEN pr.less
       ELSE bm.less

\* func Less(s1, s2 *Version) bool, with the heap the two pointers reach
Less(h, s1, s2) ==
    LET ma == lessOrEqual(s1.Major, s2.Major)
        mi == lessOrEqual(s1.Minor, s2.Minor)
        pa == lessOrEqual(s1.Patch, s2.Patch)
        pr == lessOrEqualStrings(elems(h, s1.Prerelease), elems(h, s2.Prerelease))
    IN IF ~ ma.eq THEN ma.less
       ELSE IF ~ mi.eq THEN mi.less
       ELSE IF ~ pa.eq THEN pa.less
       ELSE IF ~ pr.eq THEN pr.less
       ELSE FALSE

----------------------------------------------------------------------------
(* Options and the bump engine.  An option is a value; applyOption(o, st)  *)
(* calls it on the target st = [h, v] and yields [st, err, panic].         *)

DigitChars == <<"0", "1", "2", "3", "4", "5", "6", "7", "8", "9">>

RECURSIVE addOne(_)
\* the digits of m + 1, for the digits of a natural m
addOne(d) ==
    IF d = <<>> THEN <<"1">>
    ELSE LET front == SubSeq(d, 1, Len(d) - 1)
             last  == d[Len(d)]
         IN IF last = "9" THEN addOne(front) \o <<"0">>
            ELSE front \o <<DigitChars[(Ascii[last] - 48) + 2]>>

RECURSIVE subOne(_)
\* the digits of m - 1, for the digits of a natural m >= 1
subOne(d) ==
    LET front == SubSeq(d, 1, Len(d) - 1)
        last  == d[Len(d)]
    IN IF last = "0" THEN subOne(front) \o <<"9">>
       ELSE front \o <<DigitChars[Ascii[last] - 48]>>

\* big.NewInt(0).SetString(s, 10)
bigSetString(s) ==
    LET p == signedDigits(s)
    IN [ok |-> p.ok, val |-> IF p.ok THEN intVal(p.neg, p.d) ELSE intVal(FALSE, <<"0">>)]

\* bigN.Add(bigN, big.NewInt(1))
bigAddOne(x) ==
    IF x.neg THEN intVal(TRUE, subOne(x.mag)) ELSE intVal(FALSE, addOne(x.mag))

\* bigN.String()
bigString(x) == IF x.neg THEN <<"-">> \o x.mag ELSE x.mag

\* increment computed in an int: strconv.Atoi, then + 1 wrapping around
increment_MachineInt(n) ==
    LET r == Atoi(n)
    IN IF ~ r.val.neg /\ r.val.mag = MaxIntDigits
       THEN [panic |-> FALSE, s |-> <<"-">> \o MinIntDigits]
       ELSE [panic |-> FALSE, s |-> bigString(bigAddOne(r.val))]

\* func increment(n string) string; panic when n is no decimal numeral
increment(n) ==
    LET b == bigSetString(n)
    IN IF ~ b.ok THEN [panic |-> TRUE, s |-> <<>>]
       ELSE [panic |-> FALSE, s |-> bigString(bigAddOne(b.val))]

\* what an option returns once its parser has returned r
optionReturn(r) == [st |-> r.st, err |-> r.err, panic |-> FALSE]

\* the result of running a parser as an option body: _, err := parser(0, x, s)
parserOption(parser, x, st) == optionReturn(run(parser, 0, x, st))

SetCore(core) == [kind |-> "SetCore", arg |-> core]

Prerelease(pr) == [kind |-> "Prerelease", arg |-> pr]

BuildMetadata(bl) == [kind |-> "BuildMetadata", arg |-> bl]

BumpMajor == [kind |-> "BumpMajor"]

BumpMinor == [kind |-> "BumpMinor"]

BumpPatch == [kind |-> "BumpPatch"]

BumpRelease == [kind |-> "BumpRelease"]

BumpPrelease == [kind |-> "BumpPrelease"]

\* the parser built by SetCore
SetCoreParser == sequence(<<major, dot, minor, dot, patch, excess>>)

\* the parser built by Prerelease
PrereleaseParser == sequence(<<prerelease, repeat(<<dot, prerelease>>), excess>>)

\* the parser built by BuildMetadata
BuildMetadataParser == sequence(<<buildmetadata, repeat(<<dot, buildmetadata>>), excess>>)

\* the parser of an option of kind SetCore, Prerelease or BuildMetadata
optionParser(kind) ==
    CASE kind = "SetCore"       -> SetCoreParser
      [] kind = "Prerelease"    -> PrereleaseParser
      [] kind = "BuildMetadata" -> BuildMetadataParser

\* the body shared by the options SetCore, Prerelease and BuildMetadata:
\* nothing for the empty string, else the option's parser on the argument
parsingOptionApply(o, st) ==
    IF o.arg = <<>> THEN [st |-> st, err |-> nil, panic |-> FALSE]
    ELSE parserOption(optionParser(o.kind), o.arg, st)

BumpMajorApply(st) ==
    LET n == increment(st.v.Major)
    IN [st |-> [st EXCEPT !.v.Major = n.s, !.v.Minor = <<"0">>, !.v.Patch = <<"0">>,
                          !.v.Prerelease = emptySlice],
        err |-> nil, panic |-> n.panic]

BumpMinorApply(st) ==
    LET n == increment(st.v.Minor)
    IN [st |-> [st EXCEPT !.v.Minor = n.s, !.v.Patch = <<"0">>,
                          !.v.Prerelease = emptySlice],
        err |-> nil, panic |-> n.panic]

BumpPatchApply(st) ==
    LET n == increment(st.v.Patch)
    IN [st |-> [st EXCEPT !.v.Patch = n.s, !.v.Prerelease = emptySlice],
        err |-> nil, panic |-> n.panic]

BumpReleaseApply(st) ==
    IF st.v.Prerelease.len = 0
    THEN [st |-> st, err |-> Errorf("no prerelease set in version"), panic |-> FALSE]
    ELSE [st |-> [st EXCEPT !.v.Prerelease = emptySlice], err |-> nil, panic |-> FALSE]

RECURSIVE BumpPreleaseLoop(_, _)
\* the loop of BumpPrelease from index i down to 0: the heap after it
BumpPreleaseLoop(st, i) ==
    IF i < 0 THEN st.h
    ELSE LET sl   == st.v.Prerelease
             bigN == bigSetString(st.h[sl.arr][i + 1])
         IN IF bigN.ok
            THEN [st.h EXCEPT ![sl.arr][i + 1] = bigString(bigAddOne(bigN.val))]
            ELSE BumpPreleaseLoop(st, i - 1)

BumpPreleaseApply(st) ==
    IF st.v.Prerelease.len = 0
    THEN [st |-> st, err |-> Errorf("no prerelease set in version"), panic |-> FALSE]
    ELSE [st |-> [st EXCEPT !.h = BumpPreleaseLoop(st, st.v.Prerelease.len - 1)],
          err |-> nil, panic |-> FALSE]

\* option(&newSemver)
applyOption(o, st) ==
    CASE o.kind \in {"SetCore", "Prerelease", "BuildMetadata"} -> parsingOptionApply(o, st)
      [] o.kind = "BumpMajor"     -> BumpMajorApply(st)
      [] o.kind = "BumpMinor"     -> BumpMinorApply(st)
      [] o.kind = "BumpPatch"     -> BumpPatchApply(st)
      [] o.kind = "BumpRelease"   -> BumpReleaseApply(st)
      [] o.kind = "BumpPrelease"  -> BumpPreleaseApply(st)

RECURSIVE BumpLoop(_, _, _)

\* the body of the loop of Bump once option i has returned r
BumpStep(opts, i, r) ==
    IF r.panic \/ r.err /= nil THEN r ELSE BumpLoop(opts, i + 1, r.st)

\* the loop of Bump over options[i..], on newSemver and the heap in st
BumpLoop(opts, i, st) ==
    IF i > Len(opts) THEN [st |-> st, err |-> nil, panic |-> FALSE]
    ELSE BumpStep(opts, i, applyOption(opts[i], st))

\* BumpOptions without the default for the empty list
BumpOptions_NoDefault(opts) == opts

\* the option list Bump works on
BumpOptions(opts) ==
    IF Len(opts) = 0 THEN <<BumpMajor, BuildMetadata(<<>>)>> ELSE opts

\* BumpReturn handing out newSemver, as far as it got, along with the error
BumpReturn_Partial(r) ==
    [v |-> r.st.v, err |-> r.err, h |-> r.st.h, panic |-> r.panic]

\* what Bump returns once its loop has ended in r: Version{} and the error,
\* or newSemver and nil
BumpReturn(r) ==
    IF r.panic THEN [v |-> zeroVersion, err |-> nil, h |-> r.st.h, panic |-> TRUE]
    ELSE IF r.err /= nil
    THEN [v |-> zeroVersion, err |-> r.err, h |-> r.st.h, panic |-> FALSE]
    ELSE [v |-> r.st.v, err |-> nil, h |-> r.st.h, panic |-> FALSE]

\* Bump without the reset of newSemver.Buildmetadata
Bump_KeepsMetadata(h, semver, opts) ==
    BumpReturn(BumpLoop(BumpOptions(opts), 1, [h |-> h, v |-> semver]))

\* func (semver *Version) Bump(options ...BumpOption) (Version, error), with
\* the struct the receiver points to: the Version and error returned, the
\* heap after the call
Bump(h, semver, opts) ==
    BumpReturn(BumpLoop(BumpOptions(opts), 1,
                        [h |-> h, v |-> [semver EXCEPT !.Buildmetadata = emptySlice]]))

----------------------------------------------------------------------------
(* Inputs of the parsing program *)

MaxCoreLen == 6

MaxTailLen == 4

MaxParts == 3

CoreAlphabet == {"0", "1", ".", "a"}

TailAlphabet == {"0", "1", "a", "-", ".", "+", "_"}

\* all strings over alphabet of length at most n
StringsUpTo(alphabet, n) == UNION {[1..k -> alphabet] : k \in 0..n}

\* version strings of the test suite, over the bytes of the model
Examples ==
    { <<"1","0",".","2","0",".","3","0","-","a",".","b","-","c",".","1","+","b",".","0","1">>,
      <<"1",".","2",".","3","-","-","-","-","A","-","b",".","1","2",".","9",".","1","-","-",".","1","2","+","7","8","8">>,
      <<"1",".","0",".","0","-","0","A",".","a",".","b">>,
      <<"1",".","2",".","3","-","0","1","2","3",".","0","1","2","3">>,
      <<"1",".","1",".","2","+",".","1","2","3">>,
      <<"9",".","8",".","7","-","a","+","b","+","b">>,
      <<"1",".","0",".","0","-","a",".",".","1">> }

\* pieces of the optional sections, well formed and not
TailParts ==
    { <<"-", "a">>, <<"-", "0", "1">>, <<".", "0">>, <<".", "1", "0">>, <<".", "-", "b">>,
      <<"+", "b">>, <<"+", "0", "0">>, <<".">>, <<"+">>, <<"-">>, <<"_">> }

RECURSIVE Concat(_)
\* the concatenation of a sequence of strings
Concat(ss) == IF ss = <<>> THEN <<>> ELSE Head(ss) \o Concat(Tail(ss))

ParseInputs ==
    StringsUpTo(CoreAlphabet, MaxCoreLen)
    \cup {<<"1", ".", "2", ".", "3">> \o t : t \in StringsUpTo(TailAlphabet, MaxTailLen)}
    \cup {<<"1", "0", ".", "0", ".", "2">> \o Concat(ps) : ps \in StringsUpTo(TailParts, MaxParts)}
    \cup Examples

----------------------------------------------------------------------------
(* The calling programs *)

noVersion == zeroVersion

InitCommon ==
    /\ pc = "start"
    /\ heap = <<>>
    /\ v1 = noVersion
    /\ v2 = noVersion
    /\ err = nil
    /\ out = <<>>
    /\ less12 = FALSE
    /\ less21 = FALSE
    /\ before = <<>>
    /\ ret = noVersion
    /\ got = FALSE
    /\ threads = <<>>

\* a program in the shape of TestExamplesFromWebpage: Valid, Parse, String
InitParse ==
    /\ InitCommon
    /\ str1 \in ParseInputs
    /\ str2 = <<>>
    /\ options = <<>>

\* valid := semver.Valid(version)
CallValid ==
    /\ pc = "start"
    /\ less12' = Valid(heap, str1)
    /\ pc' = "validated"
    /\ UNCHANGED <<heap, str1, str2, v1, v2, err, out, less21, options, before, ret, got, threads>>

\* v, err := ... : the assignment of what Parse returned
ParseInto1(r) ==
    /\ v1' = r.v
    /\ err' = r.err
    /\ heap' = r.h

\* v, err := semver.Parse(version)
CallParse ==
    /\ pc = "validated"
    /\ ParseInto1(Parse(heap, str1))
    /\ pc' = "parsed"
    /\ UNCHANGED <<str1, str2, v2, out, less12, less21, options, before, ret, got, threads>>

\* v.String(), reached when Parse returned no error
CallString ==
    /\ pc = "parsed"
    /\ err = nil
    /\ out' = String(heap, v1)
    /\ pc' = "rendered"
    /\ UNCHANGED <<heap, str1, str2, v1, v2, err, less12, less21, options, before, ret, got, threads>>

NextParse == CallValid \/ CallParse \/ CallString

SpecParse == InitParse /\ [][NextParse]_vars

----------------------------------------------------------------------------
(* The grammar of semver.org, item 2, 9 and 10, stated on the input alone *)

RECURSIVE Split(_, _)
\* the pieces of s between occurrences of sep
Split(s, sep) ==
    IF \A i \in 1..Len(s) : s[i] /= sep THEN <<s>>
    ELSE LET k == CHOOSE i \in 1..Len(s) : s[i] = sep /\ \A j \in 1..(i - 1) : s[j] /= sep
         IN <<Upto(s, k - 1)>> \o Split(From(s, k), sep)

GrammarDigit == {"0", "1", "2", "3", "4", "5", "6", "7", "8", "9"}

GrammarIdentChar == GrammarDigit \cup {"A", "a", "b", "c", "-"}

IsNumericId(x) ==
    /\ x /= <<>>
    /\ \A i \in 1..Len(x) : x[i] \in GrammarDigit
    /\ (Len(x) > 1 => x[1] /= "0")

IsMetaId(x) ==
    /\ x /= <<>>
    /\ \A i \in 1..Len(x) : x[i] \in GrammarIdentChar

IsPreId(x) ==
    /\ IsMetaId(x)
    /\ ((\A i \in 1..Len(x) : x[i] \in GrammarDigit) => IsNumericId(x))

IsCore(x) ==
    LET parts == Split(x, ".")
    IN Len(parts) = 3 /\ \A i \in 1..3 : IsNumericId(parts[i])

\* the identifiers of a section that starts with one lead character
SectionIds(x) == Split(Tail(x), ".")

IsPreSection(x) ==
    \/ x = <<>>
    \/ x[1] = "-" /\ \A i \in 1..Len(SectionIds(x)) : IsPreId(SectionIds(x)[i])

IsMetaSection(x) ==
    \/ x = <<>>
    \/ x[1] = "+" /\ \A i \in 1..Len(SectionIds(x)) : IsMetaId(SectionIds(x)[i])

IsSemver(s) ==
    \E p \in 0..Len(s) : \E q \in p..Len(s) :
        /\ IsCore(Upto(s, p))
        /\ IsPreSection(SubSeq(s, p + 1, q))
        /\ IsMetaSection(From(s, q))

\* C1: Parse(s) succeeds, and Valid(s) is true, exactly when s has the form
\* major.minor.patch[-pre][+meta] of the grammar, with nothing around it.
C1_ParseAcceptsExactlyTheGrammar ==
    /\ (pc \in {"validated", "parsed", "rendered"} => (less12 <=> IsSemver(str1)))
    /\ (pc \in {"parsed", "rendered"} => ((err = nil) <=> IsSemver(str1)))

C1_Witness ==
    /\ pc = "parsed"
    /\ err = nil
    /\ less12
    /\ v1.Major = <<"1", "0">>
    /\ elems(heap, v1.Prerelease) = <<<<"a">>, <<"-", "b">>>>
    /\ elems(heap, v1.Buildmetadata) = <<<<"0", "0">>>>

\* C2: for every string Parse accepts, String() of the parsed Version is that
\* string, every identifier in its place.
C2_RoundTrip ==
    pc = "rendered" => out = str1

C2_Witness ==
    /\ pc = "rendered"
    /\ out = str1
    /\ v1.Prerelease.len = 5
    /\ v1.Buildmetadata.len = 1

----------------------------------------------------------------------------
(* The comparing program, in the shape of less() of TestSortSemver:        *)
(* s1 := MustParse(v1); s2 := MustParse(v2); Less(&s1, &s2); and the same  *)
(* with the arguments exchanged.                                           *)

MaxPre == 2

\* prerelease identifiers the compared versions are built from
Ids == { <<"1">>, <<"1", "0">>, <<"a">>, <<"b">>, <<"-", "1">> }

\* core numbers the compared versions are built from; the last has 20 digits
Nums ==
    { <<"0">>, <<"2">>, <<"1", "0">>,
      <<"9","9","9","9","9","9","9","9","9","9","9","9","9","9","9","9","9","9","9","9">> }

MetaLists == { <<>>, <<<<"a">>>>, <<<<"b">>>>, <<<<"0", "1">>, <<"a">>>> }

\* the text major.minor.patch[-pre][+meta] of the given parts
VersionText(core, pre, meta) ==
    Join(core, <<".">>)
    \o (IF pre = <<>> THEN <<>> ELSE <<"-">> \o Join(pre, <<".">>))
    \o (IF meta = <<>> THEN <<>> ELSE <<"+">> \o Join(meta, <<".">>))

PreFamily ==
    { VersionText(<<<<"1">>, <<"0">>, <<"0">>>>, pre, <<>>) :
        pre \in UNION {[1..k -> Ids] : k \in 0..MaxPre} }

CoreFamily ==
    { VersionText(<<a, b, c>>, <<>>, <<>>) : a \in Nums, b \in Nums, c \in Nums }

MetaFamily ==
    { VersionText(<<c, <<"0">>, <<"0">>>>, pre, meta) :
        c \in {<<"1">>, <<"2">>},
        pre \in {<<>>, <<<<"a">>>>, <<<<"1">>>>},
        meta \in MetaLists }

\* prerelease sequences with numeric identifiers around and beyond the
\* largest int: 5, 2^63-1, 2^63, twenty nines, 1 followed by twenty zeros
BigPres ==
    { <<<<"5">>>>, <<MaxIntDigits>>, <<MinIntDigits>>,
      <<[i \in 1..20 |-> "9"]>>, <<<<"1">> \o [i \in 1..20 |-> "0"]>>,
      <<<<"a">>, [i \in 1..20 |-> "9"]>>, <<<<"a">>, <<"1">> \o [i \in 1..20 |-> "0"]>> }

BigFamily == { VersionText(<<<<"1">>, <<"0">>, <<"0">>>>, pre, <<>>) : pre \in BigPres }

LessPairs ==
    (PreFamily \X PreFamily) \cup (CoreFamily \X CoreFamily) \cup (MetaFamily \X MetaFamily)
    \cup (BigFamily \X BigFamily)

InitLess ==
    /\ InitCommon
    /\ \E p \in LessPairs : str1 = p[1] /\ str2 = p[2]
    /\ options = <<>>

\* s1 := ... : MustParse returns what Parse returned when there is no error
MustInto1(r) ==
    /\ r.err = nil
    /\ v1' = r.v
    /\ heap' = r.h

\* s2 := ... : MustParse returns what Parse returned when there is no error
MustInto2(r) ==
    /\ r.err = nil
    /\ v2' = r.v
    /\ heap' = r.h

\* s1 := semver.MustParse(v1)
MustParse1 ==
    /\ pc = "start"
    /\ MustInto1(Parse(heap, str1))
    /\ pc' = "parsed1"
    /\ UNCHANGED <<str1, str2, v2, err, out, less12, less21, options, before, ret, got, threads>>

\* s2 := semver.MustParse(v2)
MustParse2 ==
    /\ pc = "parsed1"
    /\ MustInto2(Parse(heap, str2))
    /\ pc' = "parsed2"
    /\ UNCHANGED <<str1, str2, v1, err, out, less12, less21, options, before, ret, got, threads>>

\* asc := semver.Less(&s1, &s2)
CallLess12 ==
    /\ pc = "parsed2"
    /\ less12' = Less(heap, v1, v2)
    /\ pc' = "asc"
    /\ UNCHANGED <<heap, str1, str2, v1, v2, err, out, less21, options, before, ret, got, threads>>

\* desc := semver.Less(&s2, &s1)
CallLess21 ==
    /\ pc = "asc"
    /\ less21' = Less(heap, v2, v1)
    /\ pc' = "compared"
    /\ UNCHANGED <<heap, str1, str2, v1, v2, err, out, less12, options, before, ret, got, threads>>

NextLess == MustParse1 \/ MustParse2 \/ CallLess12 \/ CallLess21

SpecLess == InitLess /\ [][NextLess]_vars

----------------------------------------------------------------------------
(* Precedence of semver.org, item 11, stated on the parsed fields *)

Pre1 == elems(heap, v1.Prerelease)

Pre2 == elems(heap, v2.Prerelease)

Meta1 == elems(heap, v1.Buildmetadata)

Meta2 == elems(heap, v2.Buildmetadata)

Core(v) == <<v.Major, v.Minor, v.Patch>>

AllDigits(x) == x /= <<>> /\ \A i \in 1..Len(x) : x[i] \in GrammarDigit

\* the digit of numeral x at decimal place k (0 for the units), 0 beyond its length
DigitAt(x, k) == IF k < Len(x) THEN Ascii[x[Len(x) - k]] - 48 ELSE 0

\* x < y as natural numbers: at the highest decimal place where the two
\* numerals differ, x has the smaller digit
NatLess(x, y) ==
    \E k \in 0..(Len(x) + Len(y)) :
        /\ DigitAt(x, k) < DigitAt(y, k)
        /\ \A j \in (k + 1)..(Len(x) + Len(y)) : DigitAt(x, j) = DigitAt(y, j)

\* lexicographic order of two triples of naturals
TripleLess(s, t) ==
    \/ NatLess(s[1], t[1])
    \/ s[1] = t[1] /\ NatLess(s[2], t[2])
    \/ s[1] = t[1] /\ s[2] = t[2] /\ NatLess(s[3], t[3])

\* p is a strict prefix of q
StrictPrefix(p, q) == Len(p) < Len(q) /\ SubSeq(q, 1, Len(p)) = p

\* the first position at which p and q hold different identifiers, 0 if none
FirstDiff(p, q) ==
    LET D == {i \in 1..min(Len(p), Len(q)) : p[i] /= q[i]}
    IN IF D = {} THEN 0 ELSE CHOOSE i \in D : \A j \in D : i <= j

\* C3: at most one of Less(a,b), Less(b,a) holds, and when neither holds the
\* two versions have the same core and the same prerelease identifiers.
C3_OrderingTotality ==
    pc = "compared" =>
        /\ ~ (less12 /\ less21)
        /\ ((~ less12 /\ ~ less21) => (Core(v1) = Core(v2) /\ Pre1 = Pre2))

\* C4: with equal cores and two non-empty prerelease sequences, the first
\* position where the identifiers differ decides Less (its result is that of
\* comparing the two identifiers found there, whatever equal identifiers come
\* before), and a strict prefix is Less than the longer sequence.
C4_FirstDifferenceDecides ==
    (pc = "compared" /\ Core(v1) = Core(v2) /\ Pre1 /= <<>> /\ Pre2 /= <<>>) =>
        LET k == FirstDiff(Pre1, Pre2)
        IN /\ (k > 0 => /\ less12 = lessOrEqualStrings(<<Pre1[k]>>, <<Pre2[k]>>).less
                        /\ less21 = lessOrEqualStrings(<<Pre2[k]>>, <<Pre1[k]>>).less)
           /\ (StrictPrefix(Pre1, Pre2) => (less12 /\ ~ less21))
           /\ (StrictPrefix(Pre2, Pre1) => (less21 /\ ~ less12))

\* C5: with equal cores, when the prerelease sequences first differ where
\* exactly one identifier is all digits, the version holding that numeric
\* identifier is Less than the other and not the other way round.
C5_NumericBelowAlphanumeric ==
    (pc = "compared" /\ Core(v1) = Core(v2)) =>
        LET k == FirstDiff(Pre1, Pre2)
        IN (k > 0 /\ AllDigits(Pre1[k]) /= AllDigits(Pre2[k])) =>
               /\ less12 = AllDigits(Pre1[k])
               /\ less21 = AllDigits(Pre2[k])

\* C6: when the cores differ, Less(a,b) holds exactly when a's triple comes
\* before b's in the lexicographic order of the integer values of major,
\* minor and patch, whatever the number of digits.
C6_CoreComparedByValue ==
    (pc = "compared" /\ Core(v1) /= Core(v2)) =>
        /\ less12 = TripleLess(Core(v1), Core(v2))
        /\ less21 = TripleLess(Core(v2), Core(v1))

C6_Witness ==
    /\ pc = "compared"
    /\ v1.Major = <<"2">>
    /\ Len(v2.Major) = 20
    /\ v1.Minor = <<"1", "0">>
    /\ v2.Minor = <<"2">>
    /\ less12

\* C7: with equal cores, a version with prerelease identifiers is Less than
\* one without, and not the other way round.
C7_ReleaseAbovePrerelease ==
    (pc = "compared" /\ Core(v1) = Core(v2) /\ Pre1 /= <<>> /\ Pre2 = <<>>) =>
        (less12 /\ ~ less21)

C7_Witness ==
    /\ pc = "compared"
    /\ Core(v1) = Core(v2)
    /\ Pre1 = <<<<"a">>, <<"1">>>>
    /\ Pre2 = <<>>
    /\ less12

\* the Version s with its build metadata replaced by the identifiers m, in a
\* heap that holds them
WithMeta(h, s, m) ==
    [h |-> Append(h, m),
     v |-> [s EXCEPT !.Buildmetadata = [arr |-> Len(h) + 1, len |-> Len(m), cap |-> Len(m)]]]

\* the part of a version text before its build metadata
BeforePlus(s) == Split(s, "+")[1]

\* C8: build metadata never influences Less: replacing the metadata of both
\* versions by any other leaves both results as they are, and two versions
\* that differ in metadata alone are Less in neither direction.
C8_MetadataIgnored ==
    pc = "compared" =>
        /\ \A m1 \in MetaLists, m2 \in MetaLists :
              LET a == WithMeta(heap, v1, m1)
                  b == WithMeta(a.h, v2, m2)
              IN /\ Less(b.h, a.v, b.v) = less12
                 /\ Less(b.h, b.v, a.v) = less21
        /\ (BeforePlus(str1) = BeforePlus(str2) => (~ less12 /\ ~ less21))

C8_Witness ==
    /\ pc = "compared"
    /\ Core(v1) = Core(v2)
    /\ Pre1 = Pre2
    /\ Meta1 = <<<<"a">>>>
    /\ Meta2 = <<<<"0", "1">>, <<"a">>>>
    /\ ~ less12
    /\ ~ less21

----------------------------------------------------------------------------
(* The bumping program, in the shape of cmd/semver-bump and of             *)
(* TestVersion_Bump: sv := MustParse(base); res, err := sv.Bump(opts...);  *)
(* res.String().                                                           *)

MaxOpts == 2

BumpInputs ==
    { <<"1", ".", "2", ".", "3">>,
      <<"1", ".", "2", ".", "3", "+", "a">>,
      <<"1", ".", "2", ".", "3", "-", "a", ".", "1">>,
      <<"1", ".", "2", ".", "3", "-", "a">>,
      <<"1", ".", "9", ".", "9", "-", "1", ".", "b", ".", "9", "+", "b", ".", "c">>,
      <<"9", ".", "0", ".", "9", "-", "-", "1", ".", "a">>,
      <<"0", ".", "0", ".", "0", "-", "2", ".", "1", "-", "a">>,
      MaxIntDigits \o <<".">> \o [i \in 1..20 |-> "9"] \o <<".", "9", "-", "a", "b">>,
      <<"1", ".", "0", ".", "0", "-", "2", ".", "-", "1">> }

BumpOptionSet ==
    { BumpMajor, BumpMinor, BumpPatch, BumpRelease, BumpPrelease,
      BuildMetadata(<<>>),
      BuildMetadata(<<"b">>),
      BuildMetadata(<<"a", ".", "0", "1">>),
      BuildMetadata(<<"a", ".", ".", "b">>),
      Prerelease(<<"b", ".", "1">>),
      Prerelease(<<"c", ".", "0", "1">>),
      SetCore(<<"2", ".", "0", ".", "0">>),
      SetCore(<<"3", ".", "a">>) }

OptionLists == UNION {[1..k -> BumpOptionSet] : k \in 0..MaxOpts}

\* what a caller reads from the Version v: its fields and its identifiers
View(h, v) ==
    [Major |-> v.Major, Minor |-> v.Minor, Patch |-> v.Patch,
     Prerelease |-> elems(h, v.Prerelease),
     Buildmetadata |-> elems(h, v.Buildmetadata)]

InitBump ==
    /\ InitCommon
    /\ str1 \in BumpInputs
    /\ str2 = <<>>
    /\ options \in OptionLists

\* sv := ... : MustParse returns what Parse returned when there is no error;
\* before records what the caller can read from sv
MustIntoReceiver(r) ==
    /\ r.err = nil
    /\ v1' = r.v
    /\ heap' = r.h
    /\ before' = View(r.h, r.v)

\* sv := semver.MustParse(baseVersion)
BumpParse ==
    /\ pc = "start"
    /\ MustIntoReceiver(Parse(heap, str1))
    /\ pc' = "parsed"
    /\ UNCHANGED <<str1, str2, v2, err, out, less12, less21, options, ret, got, threads>>

\* resultSv, err := ... : the assignment of what Bump returned
BumpInto(r) ==
    /\ ret' = r.v
    /\ err' = r.err
    /\ heap' = r.h
    /\ pc' = IF r.panic THEN "panicked" ELSE "bumped"

\* resultSv, err := sv.Bump(options...)
CallBump ==
    /\ pc = "parsed"
    /\ BumpInto(Bump(heap, v1, options))
    /\ UNCHANGED <<str1, str2, v1, v2, out, less12, less21, options, before, got, threads>>

\* resultSv.String(), reached when Bump returned no error
BumpString ==
    /\ pc = "bumped"
    /\ err = nil
    /\ out' = String(heap, ret)
    /\ pc' = "printed"
    /\ UNCHANGED <<heap, str1, str2, v1, v2, err, less12, less21, options, before, ret, got, threads>>

NextBump == BumpParse \/ CallBump \/ BumpString

SpecBump == InitBump /\ [][NextBump]_vars

----------------------------------------------------------------------------
(* Bump: claims *)

\* C9: after Bump returns, with or without error, the receiver's major,
\* minor, patch, prerelease identifiers and build-metadata identifiers are
\* what they were before the call.
C9_BumpLeavesReceiverUnchanged ==
    pc \in {"bumped", "printed"} => View(heap, v1) = before

RECURSIVE ApplyAll(_, _)
\* the target after every option of opts has run on it in turn
ApplyAll(opts, st) ==
    IF opts = <<>> THEN st ELSE ApplyAll(Tail(opts), applyOption(Head(opts), st).st)

\* the target on which option k of the call runs
TargetAt(k) ==
    ApplyAll(SubSeq(BumpOptions(options), 1, k - 1),
             [h |-> heap, v |-> [v1 EXCEPT !.Buildmetadata = emptySlice]])

\* C10 as stated: when an option fails, Bump returns the error together with
\* the original, unmodified Version.
C10_ErrorReturnsOriginal ==
    (pc = "bumped" /\ err /= nil) => View(heap, ret) = before

\* C10 as amended: when an option fails, Bump stops at that option and
\* returns its error together with the zero Version; no partially bumped
\* value is returned.
C10_ErrorReturnsZeroVersion ==
    [][(pc = "parsed" /\ pc' = "bumped" /\ err' /= nil) =>
         /\ ret' = zeroVersion
         /\ \E k \in 1..Len(BumpOptions(options)) :
               /\ \A j \in 1..(k - 1) :
                     applyOption(BumpOptions(options)[j], TargetAt(j)).err = nil
               /\ applyOption(BumpOptions(options)[k], TargetAt(k)).err = err'
               /\ applyOption(BumpOptions(options)[k], TargetAt(k)).st.h = heap']_vars

C10_Witness ==
    /\ pc = "bumped"
    /\ err /= nil
    /\ Len(options) = 2
    /\ options[1] = BumpPrelease
    /\ options[2] = SetCore(<<"3", ".", "a">>)
    /\ before.Prerelease /= <<>>

\* the identifiers a fragment is split into at its dots; none for the empty one
Fragments(x) == IF x = <<>> THEN <<>> ELSE Split(x, ".")

RECURSIVE FragmentsOf(_, _)
\* the identifiers of all options of the given kind, in list order
FragmentsOf(opts, kind) ==
    IF opts = <<>> THEN <<>>
    ELSE (IF Head(opts).kind = kind THEN Fragments(Head(opts).arg) ELSE <<>>)
         \o FragmentsOf(Tail(opts), kind)

\* the options of the given kind that carry a non-empty fragment, in list order
OptionsOfKind(opts, kind) == SelectSeq(opts, LAMBDA o : o.kind = kind /\ o.arg /= <<>>)

\* C11 as stated: after a successful Bump the result's build metadata is
\* empty when no metadata option was given, and otherwise is the identifiers
\* of the last metadata option alone (last write wins; an option with the
\* empty string, which the code ignores, is not counted as a write).
C11_MetadataLastWriteWins ==
    (pc = "bumped" /\ err = nil) =>
        LET ms == OptionsOfKind(options, "BuildMetadata")
        IN elems(heap, ret.Buildmetadata) =
               (IF ms = <<>> THEN <<>> ELSE Fragments(ms[Len(ms)].arg))

\* C11 as amended: after a successful Bump the result's build metadata is
\* the concatenation, in list order, of the identifiers of every metadata
\* option (empty when there is none); the receiver's metadata is never
\* carried forward and a later metadata option appends, it does not replace.
C11_MetadataAccumulates ==
    (pc = "bumped" /\ err = nil) =>
        elems(heap, ret.Buildmetadata) = FragmentsOf(options, "BuildMetadata")

C11_Witness ==
    /\ pc = "bumped"
    /\ err = nil
    /\ before.Buildmetadata = <<<<"a">>>>
    /\ options = <<BuildMetadata(<<"b">>), BuildMetadata(<<"a", ".", "0", "1">>)>>
    /\ elems(heap, ret.Buildmetadata) = <<<<"b">>, <<"a">>, <<"0", "1">>>>

\* y is the decimal numeral of x + 1: x ends in k nines after a digit that
\* is not 9, which y has one higher and followed by k zeros; or x is all
\* nines and y is 1 followed by as many zeros
IsSuccessor(x, y) ==
    LET n == Len(x)
    IN \E k \in 0..n :
          /\ \A i \in (n - k + 1)..n : x[i] = "9"
          /\ IF k = n
             THEN y = <<"1">> \o [i \in 1..n |-> "0"]
             ELSE /\ x[n - k] /= "9"
                  /\ Len(y) = n
                  /\ \A i \in 1..(n - k - 1) : y[i] = x[i]
                  /\ Ascii[y[n - k]] = Ascii[x[n - k]] + 1
                  /\ \A i \in (n - k + 1)..n : y[i] = "0"

\* the last option of the call
LastOption == options[Len(options)]

\* the Version the last option of the call runs on
LastTarget == TargetAt(Len(options)).v

\* C12: when the last option of a successful Bump is BumpMajor, BumpMinor or
\* BumpPatch, the result has the field of that option one higher than the
\* Version the option ran on (as a natural number of any size), the fields to
\* its left as they were, the fields to its right "0", and no prerelease.
C12_CoreBumpResets ==
    [][(pc = "parsed" /\ pc' = "bumped" /\ err' = nil /\ options /= <<>>) =>
         /\ (LastOption = BumpMajor =>
                /\ IsSuccessor(LastTarget.Major, ret'.Major)
                /\ ret'.Minor = <<"0">>
                /\ ret'.Patch = <<"0">>
                /\ elems(heap', ret'.Prerelease) = <<>>)
         /\ (LastOption = BumpMinor =>
                /\ ret'.Major = LastTarget.Major
                /\ IsSuccessor(LastTarget.Minor, ret'.Minor)
                /\ ret'.Patch = <<"0">>
                /\ elems(heap', ret'.Prerelease) = <<>>)
         /\ (LastOption = BumpPatch =>
                /\ ret'.Major = LastTarget.Major
                /\ ret'.Minor = LastTarget.Minor
                /\ IsSuccessor(LastTarget.Patch, ret'.Patch)
                /\ elems(heap', ret'.Prerelease) = <<>>)]_vars

C12_Witness ==
    /\ pc = "bumped"
    /\ err = nil
    /\ options = <<BumpPatch, BumpMinor>>
    /\ before.Prerelease = <<<<"a", "b">>>>
    /\ ret.Major = MaxIntDigits
    /\ ret.Minor = <<"1">> \o [i \in 1..20 |-> "0"]
    /\ ret.Patch = <<"0">>
    /\ ret.Prerelease.len = 0

LastTargetPre == elems(TargetAt(Len(options)).h, LastTarget.Prerelease)

\* C14: when the last option of a Bump is BumpPrelease and the Version it
\* runs on has no prerelease identifier, or none made of digits only, Bump
\* returns an error; it never succeeds with the prerelease left as it was.
C14_PreleaseBumpFailsWithoutNumeric ==
    [][(pc = "parsed" /\ pc' = "bumped" /\ options /= <<>> /\ LastOption = BumpPrelease) =>
         /\ ((\A i \in 1..Len(LastTargetPre) : ~ AllDigits(LastTargetPre[i])) => err' /= nil)
         /\ (err' = nil => elems(heap', ret'.Prerelease) /= LastTargetPre)]_vars

----------------------------------------------------------------------------
(* The validating program, in the shape of TestVersion_Valid:              *)
(* sv := MustParse(base); mutator(&sv); got := sv.Valid().                 *)

MaxIds == 2

\* func (semver *Version) Valid() bool
Version_Valid(h, semver) == Parse(h, String(h, semver)).err = nil

\* texts a mutator stores in Major, Minor or Patch
FieldTexts ==
    { <<"7">>, <<"0", "1">>, <<"a">>, <<"1", "_">>, <<>>,
      <<"1", ".", "2">>, <<"3", "-", "a">>, <<"3", "+", "b">> }

\* texts a mutator stores as one identifier
IdTexts ==
    { <<"a">>, <<"1">>, <<"0", "1">>, <<>>, <<"_">>, <<"-">>,
      <<"a", ".", "b">>, <<"a", "+", "b">> }

IdLists == UNION {[1..k -> IdTexts] : k \in 0..MaxIds}

\* the mutators that assign a string field: v.Major = "abc"
FieldMutators ==
    { [field |-> f, val |-> x] : f \in {"Major", "Minor", "Patch"}, x \in FieldTexts }

\* the mutators that assign a slice field: v.Prerelease = []string{"", "rc"}
SliceMutators ==
    { [field |-> f, val |-> ids] : f \in {"Prerelease", "Buildmetadata"}, ids \in IdLists }

\* []string{ids...} : a slice over a new backing array
sliceLiteral(h, ids) ==
    IF ids = <<>> THEN [h |-> h, s |-> emptySlice]
    ELSE [h |-> Append(h, ids),
          s |-> [arr |-> Len(h) + 1, len |-> Len(ids), cap |-> Len(ids)]]

InitValid ==
    /\ InitCommon
    /\ str1 = <<"1", ".", "2", ".", "3", "-", "a", ".", "1", "+", "b">>
    /\ str2 = <<>>
    /\ options = <<>>

\* sv := semver.MustParse("1.2.3-rc.1+cafebabe")
ValidParse ==
    /\ pc = "start"
    /\ MustIntoReceiver(Parse(heap, str1))
    /\ pc' = "parsed"
    /\ UNCHANGED <<str1, str2, v2, err, out, less12, less21, options, ret, got, threads>>

\* tt.mutator(&sv), a mutator that assigns a string field
MutateField ==
    /\ pc = "parsed"
    /\ \E m \in FieldMutators : v1' = [v1 EXCEPT ![m.field] = m.val]
    /\ pc' = "mutated"
    /\ UNCHANGED <<heap, str1, str2, v2, err, out, less12, less21, options, before, ret, got, threads>>

\* tt.mutator(&sv), a mutator that assigns a slice field
MutateSlice ==
    /\ pc = "parsed"
    /\ \E m \in SliceMutators :
          /\ heap' = sliceLiteral(heap, m.val).h
          /\ v1' = [v1 EXCEPT ![m.field] = sliceLiteral(heap, m.val).s]
    /\ pc' = "mutated"
    /\ UNCHANGED <<str1, str2, v2, err, out, less12, less21, options, before, ret, got, threads>>

\* got := sv.Valid(), on the mutated struct or on the one Parse returned
CallVersionValid ==
    /\ pc \in {"parsed", "mutated"}
    /\ got' = Version_Valid(heap, v1)
    /\ pc' = "checked"
    /\ UNCHANGED <<heap, str1, str2, v1, v2, err, out, less12, less21, options, before, ret, threads>>

NextValid == ValidParse \/ MutateField \/ MutateSlice \/ CallVersionValid

SpecValid == InitValid /\ [][NextValid]_vars

\* C15: Valid() on a Version is true exactly when parsing its String()
\* succeeds and gives back the same major, minor, patch and the same
\* prerelease and build-metadata identifiers.
C15_ValidIffRoundTrip ==
    pc = "checked" =>
        (got <=> /\ Parse(heap, String(heap, v1)).err = nil
                 /\ View(Parse(heap, String(heap, v1)).h, Parse(heap, String(heap, v1)).v)
                      = View(heap, v1))

----------------------------------------------------------------------------
(* Where the grammar is violated: a left-to-right reading of the input     *)
(* that yields [ok, pos], pos being the 0-based offset reached, or the     *)
(* offset of the violation: the unexpected character, the first character  *)
(* of an identifier that is empty or has a leading zero, Len(s) at the end *)

RECURSIVE RefRunEnd(_, _, _)
\* the offset of the first character at or after p that is not in set
RefRunEnd(s, p, set) ==
    IF p < Len(s) /\ s[p + 1] \in set THEN RefRunEnd(s, p + 1, set) ELSE p

RefNumber(s, p) ==
    LET e == RefRunEnd(s, p, GrammarDigit)
    IN IF e = p THEN [ok |-> FALSE, pos |-> p]
       ELSE IF e - p > 1 /\ s[p + 1] = "0" THEN [ok |-> FALSE, pos |-> p]
       ELSE [ok |-> TRUE, pos |-> e]

RefLiteral(s, p, ch) ==
    IF p < Len(s) /\ s[p + 1] = ch THEN [ok |-> TRUE, pos |-> p + 1]
    ELSE [ok |-> FALSE, pos |-> p]

RECURSIVE RefIds(_, _, _)
\* the identifiers of a section from offset p; pre when the section is the
\* prerelease, whose numeric identifiers take no leading zero
RefIds(s, p, pre) ==
    LET e == RefRunEnd(s, p, GrammarIdentChar)
        d == RefRunEnd(s, p, GrammarDigit)
    IN IF e < Len(s) /\ s[e + 1] \notin {".", "+"} THEN [ok |-> FALSE, pos |-> e]
       ELSE IF e = p THEN [ok |-> FALSE, pos |-> p]
       ELSE IF pre /\ d = e /\ e - p > 1 /\ s[p + 1] = "0" THEN [ok |-> FALSE, pos |-> p]
       ELSE IF e < Len(s) /\ s[e + 1] = "." THEN RefIds(s, e + 1, pre)
       ELSE [ok |-> TRUE, pos |-> e]

\* a section that is there when the character at p is lead
RefSection(s, p, lead, pre) ==
    IF p < Len(s) /\ s[p + 1] = lead THEN RefIds(s, p + 1, pre) ELSE [ok |-> TRUE, pos |-> p]

RefEnd(s, p) == [ok |-> p = Len(s), pos |-> p]

\* r when it failed, else what next gives from the offset r reached
RefThen(r, next(_)) == IF r.ok THEN next(r.pos) ELSE r

RefVersion(s) ==
    RefThen(RefNumber(s, 0), LAMBDA p1 :
    RefThen(RefLiteral(s, p1, "."), LAMBDA p2 :
    RefThen(RefNumber(s, p2), LAMBDA p3 :
    RefThen(RefLiteral(s, p3, "."), LAMBDA p4 :
    RefThen(RefNumber(s, p4), LAMBDA p5 :
    RefThen(RefSection(s, p5, "-", TRUE), LAMBDA p6 :
    RefThen(RefSection(s, p6, "+", FALSE), LAMBDA p7 :
    RefEnd(s, p7))))))))

\* C16: when Parse rejects a string, the position in the error is the
\* 0-based offset at which the grammar is violated: the unexpected character,
\* the first character of an identifier that is empty or has a leading zero,
\* the length of the input when it ends too early.
C16_ErrorPositionIsOffset ==
    (pc = "parsed" /\ err /= nil) =>
        /\ ~ RefVersion(str1).ok
        /\ err.pos = RefVersion(str1).pos

----------------------------------------------------------------------------
(* The concurrent program: sv := MustParse(base), then two goroutines that *)
(* each call sv.Bump(opts...) on the one sv, and a wait for both.  A call  *)
(* takes one step for the copy of the receiver and one step per option;    *)
(* BumpPrelease takes one step per element it reads and one for its store, *)
(* with the values a torn access can yield.  An append into the spare      *)
(* capacity of the shared array is part of the one step of its option, so  *)
(* of two such appends one wholly overwrites the other.                    *)

MaxConcOpts == 1

Threads == {1, 2}

ConcInputs ==
    { <<"1", ".", "2", ".", "3", "-", "a", ".", "1">>,
      <<"1", ".", "9", ".", "9", "-", "1", ".", "b", ".", "9", "+", "b", ".", "c">>,
      <<"1", ".", "2", ".", "3", "+", "a">>,
      <<"1", ".", "2", ".", "3", "-", "a">> }

ConcOptionSet ==
    { BumpMajor, BumpRelease, BumpPrelease,
      BuildMetadata(<<"b">>), Prerelease(<<"b", ".", "1">>), Prerelease(<<"c">>) }

ConcOptionLists == UNION {[1..k -> ConcOptionSet] : k \in 0..MaxConcOpts}

\* bytes that may lie behind a string in memory
UnknownBytes == {"0", "a"}

\* s read with length n: cut short, or followed by bytes that are not its own
readWithLen(s, n) ==
    IF n <= Len(s) THEN {Upto(s, n)}
    ELSE {s \o pad : pad \in [1..(n - Len(s)) -> UnknownBytes]}

\* what an unsynchronised access to a string variable may see while it is
\* written from old to new: a string is a pointer and a length, two words
\* that are not stored together
tornValues(old, new) ==
    {old, new} \cup readWithLen(new, Len(old)) \cup readWithLen(old, Len(new))

\* the locals of a goroutine before its call
threadStart(opts) ==
    [pc |-> "call", opts |-> opts, i |-> 1, newSemver |-> zeroVersion,
     j |-> 0, val |-> <<>>, ret |-> zeroVersion, err |-> nil]

\* the other goroutines whose store to the element the thread t is at is pending
writersAt(t) ==
    { u \in Threads \ {t} :
        /\ threads[u].pc = "store"
        /\ threads[u].newSemver.Prerelease.arr = threads[t].newSemver.Prerelease.arr
        /\ threads[u].j = threads[t].j }

\* v.Prerelease[i] of the thread t, as stored
elementAt(t) == heap[threads[t].newSemver.Prerelease.arr][threads[t].j + 1]

InitConc ==
    /\ InitCommon
    /\ str1 \in ConcInputs
    /\ str2 = <<>>
    /\ options = <<>>

\* sv := semver.MustParse(base)
ConcParse ==
    /\ pc = "start"
    /\ MustIntoReceiver(Parse(heap, str1))
    /\ pc' = "parsed"
    /\ UNCHANGED <<str1, str2, v2, err, out, less12, less21, options, ret, got, threads>>

\* go sv.Bump(opts1...); go sv.Bump(opts2...)
Spawn ==
    /\ pc = "parsed"
    /\ \E o1 \in ConcOptionLists, o2 \in ConcOptionLists :
          threads' = <<threadStart(o1), threadStart(o2)>>
    /\ pc' = "running"
    /\ UNCHANGED <<heap, str1, str2, v1, v2, err, out, less12, less21, options, before, ret, got>>

\* lines 201-209: the default options, newSemver := *semver, the reset of
\* newSemver.Buildmetadata
BumpEnter(t) ==
    /\ pc = "running"
    /\ threads[t].pc = "call"
    /\ threads' = [threads EXCEPT ![t].pc = "loop",
                                  ![t].opts = BumpOptions(threads[t].opts),
                                  ![t].newSemver = [v1 EXCEPT !.Buildmetadata = emptySlice]]
    /\ UNCHANGED <<pc, heap, str1, str2, v1, v2, err, out, less12, less21, options, before, ret, got>>

\* line 218: return newSemver, nil
BumpExit(t) ==
    /\ pc = "running"
    /\ threads[t].pc = "loop"
    /\ threads[t].i > Len(threads[t].opts)
    /\ threads' = [threads EXCEPT ![t].pc = "done", ![t].ret = threads[t].newSemver]
    /\ UNCHANGED <<pc, heap, str1, str2, v1, v2, err, out, less12, less21, options, before, ret, got>>

\* lines 213-216 once the option has returned r
BumpOptionReturn(t, r) ==
    /\ heap' = r.st.h
    /\ threads' =
          IF r.panic THEN [threads EXCEPT ![t].pc = "panicked"]
          ELSE IF r.err /= nil
          THEN [threads EXCEPT ![t].pc = "done", ![t].ret = zeroVersion, ![t].err = r.err]
          ELSE [threads EXCEPT ![t].newSemver = r.st.v, ![t].i = threads[t].i + 1]

\* err = option(&newSemver), for every option but BumpPrelease
BumpOption(t) ==
    /\ pc = "running"
    /\ threads[t].pc = "loop"
    /\ threads[t].i <= Len(threads[t].opts)
    /\ threads[t].opts[threads[t].i] /= BumpPrelease
    /\ BumpOptionReturn(t, applyOption(threads[t].opts[threads[t].i],
                                        [h |-> heap, v |-> threads[t].newSemver]))
    /\ UNCHANGED <<pc, str1, str2, v1, v2, err, out, less12, less21, options, before, ret, got>>

\* BumpPrelease, lines 182-185: the error for no prerelease, or the start
\* of the loop at the last element
PreleaseEnter(t) ==
    /\ pc = "running"
    /\ threads[t].pc = "loop"
    /\ threads[t].i <= Len(threads[t].opts)
    /\ threads[t].opts[threads[t].i] = BumpPrelease
    /\ threads' =
          IF threads[t].newSemver.Prerelease.len = 0
          THEN [threads EXCEPT ![t].pc = "done", ![t].ret = zeroVersion,
                               ![t].err = Errorf("no prerelease set in version")]
          ELSE [threads EXCEPT ![t].pc = "scan",
                               ![t].j = threads[t].newSemver.Prerelease.len - 1]
    /\ UNCHANGED <<pc, heap, str1, str2, v1, v2, err, out, less12, less21, options, before, ret, got>>

\* BumpPrelease, line 195: the loop is over, return nil
PreleaseExit(t) ==
    /\ pc = "running"
    /\ threads[t].pc = "scan"
    /\ threads[t].j < 0
    /\ threads' = [threads EXCEPT ![t].pc = "loop", ![t].i = threads[t].i + 1]
    /\ UNCHANGED <<pc, heap, str1, str2, v1, v2, err, out, less12, less21, options, before, ret, got>>

\* BumpPrelease, lines 187-190 once v.Prerelease[i] has been read as x
PreleaseRead(t, x) ==
    threads' =
        IF bigSetString(x).ok
        THEN [threads EXCEPT ![t].pc = "store",
                             ![t].val = bigString(bigAddOne(bigSetString(x).val))]
        ELSE [threads EXCEPT ![t].j = threads[t].j - 1]

\* BumpPrelease, lines 187-190: the read of v.Prerelease[i], which sees the
\* stored string, or any tearing of it when another goroutine is storing there
PreleaseScan(t) ==
    /\ pc = "running"
    /\ threads[t].pc = "scan"
    /\ threads[t].j >= 0
    /\ \E x \in {elementAt(t)} \cup
                 UNION {tornValues(elementAt(t), threads[u].val) : u \in writersAt(t)} :
          PreleaseRead(t, x)
    /\ UNCHANGED <<pc, heap, str1, str2, v1, v2, err, out, less12, less21, options, before, ret, got>>

\* BumpPrelease, lines 191-195: v.Prerelease[i] = bigN.String(), which leaves
\* the string written, or any tearing of it with one that another goroutine
\* is storing there; break; return nil
PreleaseStore(t) ==
    /\ pc = "running"
    /\ threads[t].pc = "store"
    /\ \E x \in {threads[t].val} \cup
                 UNION {tornValues(threads[t].val, threads[u].val) : u \in writersAt(t)} :
          heap' = [heap EXCEPT ![threads[t].newSemver.Prerelease.arr][threads[t].j + 1] = x]
    /\ threads' = [threads EXCEPT ![t].pc = "loop", ![t].i = threads[t].i + 1]
    /\ UNCHANGED <<pc, str1, str2, v1, v2, err, out, less12, less21, options, before, ret, got>>

\* the wait for both goroutines
WaitBoth ==
    /\ pc = "running"
    /\ \A t \in Threads : threads[t].pc = "done"
    /\ pc' = "joined"
    /\ UNCHANGED <<heap, str1, str2, v1, v2, err, out, less12, less21, options, before, ret, got, threads>>

BumpThread(t) ==
    \/ BumpEnter(t)
    \/ BumpExit(t)
    \/ BumpOption(t)
    \/ PreleaseEnter(t)
    \/ PreleaseExit(t)
    \/ PreleaseScan(t)
    \/ PreleaseStore(t)

NextConc == ConcParse \/ Spawn \/ (\E t \in Threads : BumpThread(t)) \/ WaitBoth

SpecConc == InitConc /\ [][NextConc]_vars

\* what the call of goroutine t returns when it runs alone on the parsed
\* receiver: the fields and identifiers of the result, and the error
AloneResult(t) ==
    LET p == Parse(<<>>, str1)
        r == Bump(p.h, p.v, threads[t].opts)
    IN [view |-> View(r.h, r.v), err |-> r.err]

\* C17: when two goroutines have called Bump on the same Version, each call
\* has returned what it returns when run alone on the original value, and
\* the shared Version reads as it did before the calls.
C17_ConcurrentBumpIsSafe ==
    pc = "joined" =>
        /\ \A t \in Threads :
              /\ View(heap, threads[t].ret) = AloneResult(t).view
              /\ threads[t].err = AloneResult(t).err
        /\ View(heap, v1) = before

----------------------------------------------------------------------------
(* The building program, in the shape of TestNew:                          *)
(* got, err := semver.New(opts...); got.String().                          *)

MaxNewOpts == 3

RECURSIVE composeLoop(_, _, _)

\* the body of the loop of compose once option i has returned r
composeStep(opts, i, r) ==
    IF r.panic \/ r.err /= nil THEN r ELSE composeLoop(opts, i + 1, r.st)

\* the loop of compose over opts[i..], on the Version and the heap in st
composeLoop(opts, i, st) ==
    IF i > Len(opts) THEN [st |-> st, err |-> nil, panic |-> FALSE]
    ELSE composeStep(opts, i, applyOption(opts[i], st))

\* compose(opts...)(v)
compose(opts, st) == composeLoop(opts, 1, st)

\* what New returns once compose has returned r: &s and the error
NewReturn(r) == [v |-> r.st.v, err |-> r.err, h |-> r.st.h]

\* New starting from Version{}
New_FromZeroVersion(h, opts) ==
    NewReturn(compose(opts, [h |-> h, v |-> zeroVersion]))

\* func New(options ...func(*Version) error) (*Version, error), with the heap
\* it is called in: the Version pointed to, the error, the heap after
New(h, opts) ==
    NewReturn(compose(opts, [h |-> h, v |-> [zeroVersion EXCEPT !.Major = <<"0">>,
                                                                !.Minor = <<"0">>,
                                                                !.Patch = <<"0">>]]))

NewOptionSet ==
    { SetCore(<<>>),
      SetCore(<<"1", ".", "2", ".", "3">>),
      SetCore(<<"1", "0", ".", "0", ".", "2">>),
      SetCore(<<"1", ".", "0", "2", ".", "3">>),
      Prerelease(<<>>),
      Prerelease(<<"a", ".", "1">>),
      Prerelease(<<"4">>),
      Prerelease(<<"1", ".", "0", "2">>),
      Prerelease(<<"1", "_", "2">>),
      BuildMetadata(<<>>),
      BuildMetadata(<<"0", "7", ".", "8">>),
      BuildMetadata(<<"9">>),
      BuildMetadata(<<"a", "+", "b">>) }

NewOptionLists == UNION {[1..k -> NewOptionSet] : k \in 0..MaxNewOpts}

InitNew ==
    /\ InitCommon
    /\ str1 = <<>>
    /\ str2 = <<>>
    /\ options \in NewOptionLists

\* got, err := ... : the assignment of what New returned
NewInto(r) ==
    /\ ret' = r.v
    /\ err' = r.err
    /\ heap' = r.h

\* got, err := semver.New(tt.opts...)
CallNew ==
    /\ pc = "start"
    /\ NewInto(New(heap, options))
    /\ pc' = "built"
    /\ UNCHANGED <<str1, str2, v1, v2, out, less12, less21, options, before, got, threads>>

\* got.String(), reached when New returned no error
NewString ==
    /\ pc = "built"
    /\ err = nil
    /\ out' = String(heap, ret)
    /\ pc' = "printed"
    /\ UNCHANGED <<heap, str1, str2, v1, v2, err, less12, less21, options, before, ret, got, threads>>

NextNew == CallNew \/ NewString

SpecNew == InitNew /\ [][NextNew]_vars

\* a fragment meets the grammar of the section its option sets; the empty
\* fragment, which every option skips, counts as no fragment
WellFormed(o) ==
    \/ o.arg = <<>>
    \/ o.kind = "SetCore" /\ IsCore(o.arg)
    \/ o.kind = "Prerelease" /\ \A i \in 1..Len(Fragments(o.arg)) : IsPreId(Fragments(o.arg)[i])
    \/ o.kind = "BuildMetadata" /\ \A i \in 1..Len(Fragments(o.arg)) : IsMetaId(Fragments(o.arg)[i])

\* the core New is to return: that of the last non-empty SetCore, else 0.0.0
ExpectedCore(opts) ==
    LET cs == OptionsOfKind(opts, "SetCore")
    IN IF cs = <<>> THEN <<<<"0">>, <<"0">>, <<"0">>>> ELSE Split(cs[Len(cs)].arg, ".")

LastNumeric(pre) ==
    LET N == {i \in 1..Len(pre) : AllDigits(pre[i])}
    IN IF N = {} THEN 0 ELSE CHOOSE i \in N : \A j \in N : j <= i

\* C19: when the last option of a Bump is BumpPrelease and the Version it
\* runs on has a prerelease identifier made of digits only, Bump succeeds and
\* the result has the last such identifier one higher, every other
\* identifier as it was, and the core as it was.
C19_LastNumericIncremented ==
    [][(/\ pc = "parsed" /\ pc' = "bumped" /\ options /= <<>>
        /\ LastOption = BumpPrelease
        /\ \A i \in 1..(Len(options) - 1) :
              applyOption(options[i], TargetAt(i)).err = nil
        /\ LastNumeric(LastTargetPre) > 0) =>
         /\ err' = nil
         /\ Core(ret') = Core(LastTarget)
         /\ Len(elems(heap', ret'.Prerelease)) = Len(LastTargetPre)
         /\ \A i \in 1..Len(LastTargetPre) :
               IF i = LastNumeric(LastTargetPre)
               THEN IsSuccessor(LastTargetPre[i], elems(heap', ret'.Prerelease)[i])
               ELSE elems(heap', ret'.Prerelease)[i] = LastTargetPre[i]]_vars

HasLetter(x) == \E i \in 1..Len(x) : x[i] \in {"A", "a", "b", "c"}

\* C20: with equal cores, when the prerelease sequences first differ at a
\* position where both identifiers are made of digits only (every earlier
\* identifier holding a letter), Less orders the versions by the value of
\* those two identifiers as natural numbers of any size.
C20_NumericIdsByValue ==
    (pc = "compared" /\ Core(v1) = Core(v2)) =>
        LET k == FirstDiff(Pre1, Pre2)
        IN (/\ k > 0
            /\ AllDigits(Pre1[k])
            /\ AllDigits(Pre2[k])
            /\ \A j \in 1..(k - 1) : HasLetter(Pre1[j])) =>
               /\ less12 = NatLess(Pre1[k], Pre2[k])
               /\ less21 = NatLess(Pre2[k], Pre1[k])

====
